---- MODULE Spec2Model ----
(***************************************************************************)
(* A model of src/vs/platform/storage/node/storageIpc.ts: the owner-side   *)
(* GlobalStorageDatabaseChannel (the Gateway) and the client-side          *)
(* GlobalStorageDatabaseChannelClient (the Proxy).                         *)
(*                                                                         *)
(* JavaScript values are modelled as follows.  A Map is a record           *)
(* [keys, val]: keys is the sequence of its keys in insertion order, val   *)
(* the lookup function on those keys.  A Set is the sequence of its        *)
(* members in insertion order.  An array is a sequence, an Item the pair   *)
(* <<key, value>>.  undefined and null are the strings Undefined and Null. *)
(***************************************************************************)
EXTENDS Integers, Sequences, FiniteSets, TLC

(***************************************************************************)
(* Bounds of the model.                                                    *)
(***************************************************************************)
\* Remote calls issued to the Gateway instances, all together.
MaxCalls == 2
\* Gateway instances constructed, one after the other, over the same storage.
MaxSessions == 2
\* Direct mutations of the storage by the owner process itself.
MaxMainWrites == 1
\* The step, in time units, by which the model lets time pass.
TickStep == 50
\* Payloads the transport feeds to the Proxies' handlers on its own.
MaxFed == 1
\* Update requests of the Proxies whose notification is followed.
MaxNotified == 1

(***************************************************************************)
(* Program constants.                                                      *)
(***************************************************************************)
\* Mutant: a quiet period of half the length.
STORAGE_CHANGE_DEBOUNCE_TIME_halved == 100 \div 2

STORAGE_CHANGE_DEBOUNCE_TIME == 100

instanceStorageKey == "telemetry.instanceId"
firstSessionDateStorageKey == "telemetry.firstSessionDate"
lastSessionDateStorageKey == "telemetry.lastSessionDate"
currentSessionDateStorageKey == "telemetry.currentSessionDate"

IdentityKeys ==
  {instanceStorageKey, firstSessionDateStorageKey,
   lastSessionDateStorageKey, currentSessionDateStorageKey}

\* The keys clients and the owner process write.
UserKeys == {"a", "b"}
\* The values clients write, and the value the owner process writes.
UserValues == {"x", "y"}
MainValue == "m"
\* The key the owner process itself writes: one that clients write too.
MainKeys == {"a"}

Keys == UserKeys \cup IdentityKeys

Undefined == "undefined"
Null == "null"

\* generateUuid() and new Date().toUTCString() in the s-th Gateway instance:
\* a fresh identifier and a later date with every instance.
UuidNames == <<"uuid1", "uuid2", "uuid3", "uuid4", "uuid5", "uuid6">>
DateNames == <<"date1", "date2", "date3", "date4", "date5", "date6">>

generateUuid(s) == UuidNames[s]

toUTCString(s) == DateNames[s]

(***************************************************************************)
(* Map, and the codec of vs/base/common/map.                               *)
(***************************************************************************)
EmptyMap == [keys |-> <<>>, val |-> <<>>]

MapHas(m, k) == k \in DOMAIN m.val

MapGet(m, k) == IF MapHas(m, k) THEN m.val[k] ELSE Undefined

MapSet(m, k, v) ==
  IF MapHas(m, k)
  THEN [m EXCEPT !.val[k] = v]
  ELSE [keys |-> Append(m.keys, k),
        val  |-> [x \in DOMAIN m.val \cup {k} |->
                    IF x = k THEN v ELSE m.val[x]]]

MapDelete(m, k) ==
  IF MapHas(m, k)
  THEN [keys |-> SelectSeq(m.keys, LAMBDA x : x # k),
        val  |-> [x \in DOMAIN m.val \ {k} |-> m.val[x]]]
  ELSE m

MapSize(m) == Len(m.keys)

\* mapToSerializable: one [key, value] pair per entry, in iteration order.
mapToSerializable(m) ==
  [i \in 1..Len(m.keys) |-> <<m.keys[i], m.val[m.keys[i]]>>]

\* serializableToMap: items.forEach(([key, value]) => map.set(key, value)).
RECURSIVE serializableToMapFrom(_, _)
serializableToMapFrom(m, items) ==
  IF items = <<>> THEN m
  ELSE serializableToMapFrom(MapSet(m, Head(items)[1], Head(items)[2]),
                             Tail(items))

serializableToMap(items) == serializableToMapFrom(EmptyMap, items)

\* values(set): the members of a Set, pushed to an array in iteration order.
values(set) == [i \in 1..Len(set) |-> set[i]]

SeqRange(s) == {s[i] : i \in 1..Len(s)}

Min(a, b) == IF a <= b THEN a ELSE b

(***************************************************************************)
(* State.                                                                  *)
(***************************************************************************)
VARIABLES
  \* StorageMainService: its items, kept across Gateway instances.
  storage,
  \* whether the Gateway's debouncer is subscribed to onDidChangeStorage
  listening,
  \* the number of the Gateway instance (0: none was constructed yet)
  session,
  \* where the promise chain of init() stands: "uninitialized" (no Gateway
  \* instance), "initialize" (initialize() pending), "catch" (the reaction
  \* of then(undefined, error => ...) is due), "then" (the reaction of
  \* then(() => ...) is due), "done" (whenReady is settled)
  initPc,
  \* how the last promise of the chain settled: "pending", "fulfilled",
  \* "rejected"
  chain,
  \* whether initialize() rejected in this instance
  initFailed,
  \* errors given to onUnexpectedError and logService.error
  errorLog,
  \* the steps init() has performed in this instance, in order
  initTrace,
  \* the reactions chained on whenReady that have not run, in order
  pending,
  \* remote calls issued so far
  nextId,
  \* the calls whose reaction has run, in order: [id, cmd, early, state]
  executed,
  \* what clients and the owner process last asked each user key to be
  expect,
  \* Event.debounce: the accumulated raw events and the timer (time units
  \* left, NoTimer when none is set)
  output,
  handle,
  \* time since the last raw event the Gateway observed (NoTimer: none yet)
  sinceRaw,
  \* the raw events of the current burst, and the bursts so far
  burst,
  nBursts,
  \* the ChangeEvents fired by this instance
  nFired,
  \* direct mutations by the owner process so far
  mainWrites,
  \* the current-session date in storage when this instance was constructed
  atBegin,
  \* the Proxies: for each, its field onDidChangeItemsOnMainListener
  \* ("none" before the constructor ran, "subscribed", "released"), whether
  \* its Disposable was disposed, the local change events it fired, the
  \* exceptions that escaped its handler, the Gateway's count of
  \* ChangeEvents when it subscribed, and whether close() was called
  client,
  \* the listeners of the Gateway's onDidChangeItems, in the order they were
  \* added: the Proxies subscribed over the channel
  subscribers,
  \* the ChangeEvents on their way to each Proxy, in order
  inbox,
  \* the payloads the transport has fed to a Proxy's handler on its own
  fed,
  \* the remote calls each Proxy has issued: their ids
  issued,
  \* the step taken last and what it did: a record with the field op
  last

vars ==
  <<storage, listening, session, initPc, chain, initFailed, errorLog,
    initTrace, pending, nextId, executed, expect, output, handle, sinceRaw,
    burst, nBursts, nFired, mainWrites, atBegin, client, subscribers, inbox,
    fed, issued, last>>

NoTimer == 0 - 1
NoArg == [none |-> TRUE]

\* The Proxies of the model, and a Proxy before its constructor has run.
Proxies == {"p1", "p2"}
FirstProxy == "p1"
NoProxy ==
  [listener |-> "none", disposed |-> FALSE, local |-> 0, threw |-> 0,
   since |-> 0, closed |-> FALSE]

(***************************************************************************)
(* The storage collaborator (StorageMainService) and Event.debounce.  The  *)
(* operators below work on a record w of the variables a storage mutation  *)
(* can change, so that one handler's sequence of mutations is one step.    *)
(***************************************************************************)
World ==
  [storage |-> storage, listening |-> listening, output |-> output,
   handle |-> handle, sinceRaw |-> sinceRaw, burst |-> burst,
   nBursts |-> nBursts]

\* storageMainService.get(key, fallback)
StorageGet(st, key, fallback) ==
  IF MapHas(st, key) THEN MapGet(st, key) ELSE fallback

\* Mutant: the merger keeps only the latest raw event.
merger_keepsLatest(prev, cur) == <<cur>>

\* The merger given to Event.debounce: the raw events of a window, appended.
\* The empty sequence stands for the undefined accumulator.
merger(prev, cur) ==
  IF prev = <<>> THEN <<cur>> ELSE Append(prev, cur)

\* Event.debounce on a raw event: merge it, and restart the timer.
debounceOnEvent(w, cur) ==
  [w EXCEPT !.output = merger(@, cur),
            !.handle = STORAGE_CHANGE_DEBOUNCE_TIME]

\* A raw event starts a new burst when the quiet period has passed since
\* the one before (or there was none).
NewBurst(w) == w.sinceRaw = NoTimer \/ w.sinceRaw >= 100

\* The record of the raw events the Gateway was sent: each with its key and
\* the time since the one before.
observe(w, key) ==
  [w EXCEPT !.burst = IF NewBurst(w)
                      THEN <<[key |-> key, gap |-> w.sinceRaw]>>
                      ELSE Append(@, [key |-> key, gap |-> w.sinceRaw]),
            !.nBursts = IF NewBurst(w) THEN @ + 1 ELSE @,
            !.sinceRaw = 0]

\* onDidChangeStorage fires: the debouncer, when it is subscribed, gets the
\* raw event { key }.
fireDidChangeStorage(w, key) ==
  IF w.listening THEN debounceOnEvent(observe(w, key), [key |-> key]) ELSE w

\* storageMainService.store(key, value): a raw event when the value changes.
store(w, key, value) ==
  LET w1 == [w EXCEPT !.storage = MapSet(@, key, value)]
  IN  IF MapGet(w.storage, key) # value
      THEN fireDidChangeStorage(w1, key)
      ELSE w1

\* storageMainService.remove(key): a raw event when the key was there.
remove(w, key) ==
  LET w1 == [w EXCEPT !.storage = MapDelete(@, key)]
  IN  IF MapHas(w.storage, key)
      THEN fireDidChangeStorage(w1, key)
      ELSE w1

\* storageMainService.checkIntegrity(full): the collaborator's report.
checkIntegrity(st, full) == "ok"

\* The variables of World take the values of the record w.
SetWorld(w) ==
  /\ storage' = w.storage
  /\ listening' = w.listening
  /\ output' = w.output
  /\ handle' = w.handle
  /\ sinceRaw' = w.sinceRaw
  /\ burst' = w.burst
  /\ nBursts' = w.nBursts

(***************************************************************************)
(* GlobalStorageDatabaseChannel.                                           *)
(***************************************************************************)
\* Mutant: initTelemetry() stores the installation id and the first-session
\* date without looking whether they are there.
initTelemetry_overwrites(w, s) ==
  LET w1 == store(w, instanceStorageKey, generateUuid(s))
      w2 == store(w1, firstSessionDateStorageKey, toUTCString(s))
      lastSessionDate ==
        StorageGet(w2.storage, currentSessionDateStorageKey, Undefined)
      w3 == store(w2, lastSessionDateStorageKey,
                  IF lastSessionDate = Undefined THEN Null
                  ELSE lastSessionDate)
  IN  store(w3, currentSessionDateStorageKey, toUTCString(s))

\* initTelemetry() in the s-th instance.
initTelemetry(w, s) ==
  LET instanceId == StorageGet(w.storage, instanceStorageKey, Undefined)
      w1 == IF instanceId = Undefined
            THEN store(w, instanceStorageKey, generateUuid(s))
            ELSE w
      firstSessionDate ==
        StorageGet(w1.storage, firstSessionDateStorageKey, Undefined)
      w2 == IF firstSessionDate = Undefined
            THEN store(w1, firstSessionDateStorageKey, toUTCString(s))
            ELSE w1
      lastSessionDate ==
        StorageGet(w2.storage, currentSessionDateStorageKey, Undefined)
      currentSessionDate == toUTCString(s)
      w3 == store(w2, lastSessionDateStorageKey,
                  IF lastSessionDate = Undefined THEN Null
                  ELSE lastSessionDate)
  IN  store(w3, currentSessionDateStorageKey, currentSessionDate)

\* registerListeners(): subscribe the debouncer to onDidChangeStorage.
registerListeners(w) == [w EXCEPT !.listening = TRUE]

\* serializeEvents(events): the current value of each event's key.
RECURSIVE serializeEventsFrom(_, _, _)
serializeEventsFrom(items, events, st) ==
  IF events = <<>> THEN items
  ELSE serializeEventsFrom(
         MapSet(items, Head(events).key,
                StorageGet(st, Head(events).key, Undefined)),
         Tail(events), st)

\* Mutant: serializeEvents(events) pairs the keys with no value read from
\* the storage.
serializeEvents_noRead(events, st) ==
  [items |-> mapToSerializable(serializeEventsFrom(EmptyMap, events, EmptyMap))]

serializeEvents(events, st) ==
  [items |-> mapToSerializable(serializeEventsFrom(EmptyMap, events, st))]

\* Mutant: the event is sent to the first listener only.
fire_firstOnly(boxes, listeners, e) ==
  [p \in DOMAIN boxes |->
     IF listeners # <<>> /\ p = Head(listeners) THEN Append(boxes[p], e)
     ELSE boxes[p]]

\* this._onDidChangeItems.fire(e): the event is sent to every listener, which
\* is a Proxy subscribed over the channel.
fire(boxes, listeners, e) ==
  [p \in DOMAIN boxes |->
     IF p \in SeqRange(listeners) THEN Append(boxes[p], e) ELSE boxes[p]]

\* Mutant: the listener fires without looking at the window.
debouncedListener_alwaysFires(events, st) == <<serializeEvents(events, st)>>

\* The listener of the debounced event, events => { if (events.length) ... }:
\* the ChangeEvents it fires on onDidChangeItems, none or one.
debouncedListener(events, st) ==
  IF Len(events) # 0 THEN <<serializeEvents(events, st)>> ELSE <<>>

\* Mutant: the rejection is passed on.
catchOutcome_rethrows(settled) == settled

\* The reaction of then(undefined, error => { ... }): a rejection is
\* handled, and the promise it returns is fulfilled either way.
catchOutcome(settled) == "fulfilled"

\* call('updateItems', arg), once ready: the inserts, then the deletes.
RECURSIVE storeAll(_, _)
storeAll(w, items) ==
  IF items = <<>> THEN w
  ELSE storeAll(store(w, Head(items)[1], Head(items)[2]), Tail(items))

RECURSIVE removeAll(_, _)
removeAll(w, keys) ==
  IF keys = <<>> THEN w
  ELSE removeAll(remove(w, Head(keys)), Tail(keys))

\* Mutant: the deletes are left out.
updateItemsOnMain_insertsOnly(w, arg) ==
  IF "insert" \in DOMAIN arg THEN storeAll(w, arg.insert) ELSE w

\* Mutant: the deletes, then the inserts.
updateItemsOnMain_deletesFirst(w, arg) ==
  LET w1 == IF "delete" \in DOMAIN arg THEN removeAll(w, arg.delete) ELSE w
  IN  IF "insert" \in DOMAIN arg THEN storeAll(w1, arg.insert) ELSE w1

updateItemsOnMain(w, arg) ==
  LET w1 == IF "insert" \in DOMAIN arg THEN storeAll(w, arg.insert) ELSE w
  IN  IF "delete" \in DOMAIN arg THEN removeAll(w1, arg.delete) ELSE w1

\* Mutant: the listener is registered before the identity values are seeded.
initContinuation_listenersFirst == <<"registerListeners", "initTelemetry">>

\* The reaction of then(() => { ... }) in init(): its calls, in order.
initContinuation == <<"initTelemetry", "registerListeners">>

\* Mutant: the identity values are seeded with the listener registered.
runInitStep_listensWhileSeeding(w, step, s) ==
  IF step = "initTelemetry" THEN initTelemetry(registerListeners(w), s)
  ELSE registerListeners(w)

runInitStep(w, step, s) ==
  IF step = "initTelemetry" THEN initTelemetry(w, s)
  ELSE registerListeners(w)

RECURSIVE runInitSteps(_, _, _)
runInitSteps(w, steps, s) ==
  IF steps = <<>> THEN w
  ELSE runInitSteps(runInitStep(w, Head(steps), s), Tail(steps), s)

\* this.whenReady: settled once the chain of init() has run to its end.
whenReady == IF initPc = "done" THEN chain ELSE "pending"

\* Mutant: the reactions do not wait for whenReady.
whenReadySettled_notAwaited == TRUE

whenReadySettled == whenReady # "pending"

\* Mutant: the latest reaction runs first.
chainOnWhenReady_first(reactions, r) == <<r>> \o reactions

\* this.whenReady.then(reaction): the reaction runs after those chained
\* before it.
chainOnWhenReady(reactions, r) == Append(reactions, r)

\* call(_, command, arg) ends in throw new Error(`Call not found: ...`).
callThrows(command) ==
  command \notin {"getItems", "updateItems", "checkIntegrity"}

\* call(_, command, arg): the reactions it chains on whenReady.
call(reactions, id, command, arg, early) ==
  IF command \in {"getItems", "updateItems", "checkIntegrity"}
  THEN chainOnWhenReady(reactions,
         [id |-> id, cmd |-> command, arg |-> arg, early |-> early])
  ELSE reactions

\* Mutant: listen(_, event) gives the change event for every name.
listen_anyEvent(event) == [threw |-> FALSE, event |-> "onDidChangeItems"]

\* listen(_, event): the event to subscribe to, or the error thrown.
listen(event) ==
  IF event = "onDidChangeItems"
  THEN [threw |-> FALSE, event |-> "onDidChangeItems"]
  ELSE [threw |-> TRUE, event |-> "none"]

(***************************************************************************)
(* JavaScript values as the transport can hand them to a Proxy.  A value   *)
(* is a record [kind, elems]: elems are the elements of an array.  A       *)
(* payload is a record [kind, items]: items is the value of its property   *)
(* items, which only an object can have set.                               *)
(***************************************************************************)
JsValue(kind) == [kind |-> kind, elems |-> <<>>]

JsArray(elems) == [kind |-> "array", elems |-> elems]

JsPayload(kind) == [kind |-> kind, items |-> JsValue("undefined")]

JsObject(items) == [kind |-> "object", items |-> items]

\* Array.isArray(value)
isArray(value) == value.kind = "array"

\* The ChangeEvent e as the Proxy receives it.
payloadOf(e) == JsObject(JsArray(e.items))

(***************************************************************************)
(* GlobalStorageDatabaseChannelClient.                                     *)
(***************************************************************************)
\* registerListeners(): channel.listen('onDidChangeItems')(handler).  The
\* Proxy c becomes a listener of the Gateway's event.
registerListenersOnClient(c, listeners, p, count) ==
  LET r == listen("onDidChangeItems")
  IN  IF r.threw
      THEN [client |-> c, subscribers |-> listeners, threw |-> TRUE]
      ELSE [client |-> [c EXCEPT !.listener = "subscribed", !.since = count],
            subscribers |-> Append(listeners, p), threw |-> FALSE]

\* onDidChangeItemsOnMain(e): the local change events it fires, and whether
\* it throws.  Reading e.items of undefined or null throws a TypeError;
\* any other value has the property, or gives undefined for it.
onDidChangeItemsOnMain(e) ==
  IF e.kind \in {"undefined", "null"}
  THEN [threw |-> TRUE, fired |-> <<>>]
  ELSE IF isArray(e.items)
  THEN [threw |-> FALSE,
        fired |-> <<[items |-> serializableToMap(e.items.elems)]>>]
  ELSE [threw |-> FALSE, fired |-> <<>>]

\* The handler of the Proxy c runs on the payload e.
runHandler(c, e) ==
  LET r == onDidChangeItemsOnMain(e)
  IN  [c EXCEPT !.local = IF c.disposed THEN @ ELSE @ + Len(r.fired),
                !.threw = IF r.threw THEN @ + 1 ELSE @]

\* The IDisposable a subscription returns, disposed: the Proxy p is no
\* longer among the listeners.
unsubscribe(listeners, p) == SelectSeq(listeners, LAMBDA x : x # p)

\* Mutant: close() leaves the subscription as it is.
releaseListener_keeps(c, listeners, p) ==
  [client |-> c, subscribers |-> listeners, threw |-> FALSE]

\* Mutant: the release removes every listener of the Gateway's event.
releaseListener_all(c, listeners, p) ==
  IF c.listener = "subscribed"
  THEN [client |-> [c EXCEPT !.listener = "released"], subscribers |-> <<>>,
        threw |-> FALSE]
  ELSE [client |-> c, subscribers |-> listeners, threw |-> FALSE]

\* this.onDidChangeItemsOnMainListener = dispose(this.onDidChangeItemsOnMainListener):
\* the subscription is disposed; disposing it again does nothing, and
\* nothing is thrown.
releaseListener(c, listeners, p) ==
  IF c.listener = "subscribed"
  THEN [client |-> [c EXCEPT !.listener = "released"],
        subscribers |-> unsubscribe(listeners, p), threw |-> FALSE]
  ELSE [client |-> c, subscribers |-> listeners, threw |-> FALSE]

\* close(): the remote calls it issues, none, and the promise it returns.
closeOnClient(c, listeners, p) ==
  LET r == releaseListener(c, listeners, p)
  IN  [client |-> r.client, subscribers |-> r.subscribers,
       calls |-> <<>>, resolved |-> TRUE, threw |-> r.threw]

\* Mutant: dispose() without the release of the subscription.
disposeOnClient_superOnly(c, listeners, p) ==
  [client |-> [c EXCEPT !.disposed = TRUE], subscribers |-> listeners,
   threw |-> FALSE]

\* dispose(): super.dispose(), which disposes the local emitter, then the
\* release of the subscription.
disposeOnClient(c, listeners, p) ==
  releaseListener([c EXCEPT !.disposed = TRUE], listeners, p)

\* Mutant: the Items are taken as [value, key].
getItemsOnClient_swapped(data) ==
  serializableToMap([i \in 1..Len(data) |-> <<data[i][2], data[i][1]>>])

\* getItems(): the reaction to the reply, data => serializableToMap(data).
getItemsOnClient(data) == serializableToMap(data)

\* Mutant: updateItems(request) without the check of updateCount.
updateItemsOnClient_alwaysCalls(request) ==
  LET fields == DOMAIN request \cap {"insert", "delete"}
      serializableRequest ==
        [f \in fields |->
           IF f = "insert" THEN mapToSerializable(request.insert)
           ELSE values(request.delete)]
  IN  [calls |-> <<[cmd |-> "updateItems", arg |-> serializableRequest]>>,
       resolved |-> FALSE]

\* updateItems(request): the remote calls it issues, and whether the
\* promise it returns is resolved at once.
updateItemsOnClient(request) ==
  LET fields == DOMAIN request \cap {"insert", "delete"}
      serializableRequest ==
        [f \in fields |->
           IF f = "insert" THEN mapToSerializable(request.insert)
           ELSE values(request.delete)]
      updateCount ==
        (IF "insert" \in fields THEN MapSize(request.insert) ELSE 0)
        + (IF "delete" \in fields THEN Len(request.delete) ELSE 0)
  IN  IF updateCount = 0
      THEN [calls |-> <<>>, resolved |-> TRUE]
      ELSE [calls |-> <<[cmd |-> "updateItems", arg |-> serializableRequest]>>,
            resolved |-> FALSE]

\* The payloads the transport feeds to a handler: every kind of value, an
\* object with every kind of items, and arrays of Items.
ItemArrays ==
  { <<>>,
    << <<"a", "x">> >>,
    << <<"a", "x">>, <<"b", "y">> >>,
    << <<"a", "x">>, <<"a", "y">> >> }

Payloads ==
  {JsPayload(kind) :
     kind \in {"undefined", "null", "string", "number", "array", "object"}}
  \cup {JsObject(JsValue(kind)) :
          kind \in {"null", "string", "number", "object"}}
  \cup {JsObject(JsArray(items)) : items \in ItemArrays}

\* Names that are no command and no event of the Gateway.
UnknownCommands == {"close", "getItem"}
UnknownEvents == {"onDidChangeItemsExternal", "getItems"}

\* The update requests the clients of the model make.
Requests ==
  { [f \in {} |-> 0],
    [insert |-> EmptyMap, delete |-> <<>>],
    [insert |-> serializableToMap(<< <<"a", "x">> >>)],
    [insert |-> serializableToMap(<< <<"a", "y">>, <<"b", "x">> >>),
     delete |-> <<"a">>],
    [insert |-> serializableToMap(<< <<"b", "y">> >>), delete |-> <<>>],
    [delete |-> <<"b", "a">>] }

\* Every update request over the user keys and values: the insert part
\* (a Map, in any insertion order) and the delete part (a Set, in any
\* order), each there or not.
ItemSeqs ==
  {<<>>}
  \cup {<< <<k, v>> >> : k \in UserKeys, v \in UserValues}
  \cup {<< <<k[1], v[1]>>, <<k[2], v[2]>> >> :
          k \in {x \in UserKeys \X UserKeys : x[1] # x[2]},
          v \in UserValues \X UserValues}

KeySeqs ==
  {<<>>}
  \cup {<<k>> : k \in UserKeys}
  \cup {x \in UserKeys \X UserKeys : x[1] # x[2]}

AllRequests ==
  UNION {
    {[f \in fields |-> IF f = "insert" THEN serializableToMap(items) ELSE keys] :
       items \in ItemSeqs, keys \in KeySeqs} :
    fields \in SUBSET {"insert", "delete"}}

(***************************************************************************)
(* Actions.                                                                *)
(***************************************************************************)
\* The timer of the debouncer has run out: its callback is the next task
\* of the owner process.
TimerDue == handle = 0

\* A promise reaction is due.  Reactions are microtasks: they run, in the
\* order they were chained, before the owner process takes its next task (a
\* message of a client, a timer, a step of its own).
MicrotaskDue ==
  \/ initPc \in {"catch", "then"}
  \/ initPc = "done" /\ pending # <<>>

\* The owner process is free to take its next task.
Idle == ~TimerDue /\ ~MicrotaskDue

GatewayVars ==
  <<session, initPc, chain, initFailed, errorLog, initTrace, atBegin>>
CallVars == <<pending, nextId, executed>>
WorldVars == <<storage, listening, output, handle, sinceRaw, burst, nBursts>>
ProxyVars == <<client, subscribers, inbox, fed, issued>>

\* new GlobalStorageDatabaseChannel(...): whenReady = init(), which calls
\* storageMainService.initialize().
Construct ==
  /\ initPc = "uninitialized"
  /\ session' = session + 1
  /\ initPc' = "initialize"
  /\ atBegin' = StorageGet(storage, currentSessionDateStorageKey, Undefined)
  /\ last' = [op |-> "construct"]
  /\ UNCHANGED <<chain, initFailed, errorLog, initTrace, expect, nFired,
                 mainWrites>>
  /\ UNCHANGED CallVars
  /\ UNCHANGED WorldVars
  /\ UNCHANGED ProxyVars

\* The promise of storageMainService.initialize() settles.
InitializeSettles(ok) ==
  /\ initPc = "initialize"
  /\ Idle
  /\ initPc' = "catch"
  /\ chain' = IF ok THEN "fulfilled" ELSE "rejected"
  /\ initFailed' = ~ok
  /\ initTrace' = Append(initTrace, "initialize")
  /\ last' = [op |-> "initialize", ok |-> ok]
  /\ UNCHANGED <<session, errorLog, atBegin, expect, nFired, mainWrites>>
  /\ UNCHANGED CallVars
  /\ UNCHANGED WorldVars
  /\ UNCHANGED ProxyVars

\* then(undefined, error => { onUnexpectedError(error); logService.error(error) })
InitCatch ==
  /\ initPc = "catch"
  /\ initPc' = "then"
  /\ chain' = IF chain = "rejected" THEN catchOutcome(chain) ELSE chain
  /\ errorLog' = IF chain = "rejected" THEN errorLog + 1 ELSE errorLog
  /\ last' = [op |-> "catch"]
  /\ UNCHANGED <<session, initFailed, initTrace, atBegin, expect, nFired,
                 mainWrites>>
  /\ UNCHANGED CallVars
  /\ UNCHANGED WorldVars
  /\ UNCHANGED ProxyVars

\* then(() => { this.initTelemetry(); this.registerListeners(); }): run when
\* the promise before it is fulfilled, passed by when it is rejected.
InitThen ==
  /\ initPc = "then"
  /\ initPc' = "done"
  /\ IF chain = "fulfilled"
     THEN /\ SetWorld(runInitSteps(World, initContinuation, session))
          /\ initTrace' = initTrace \o initContinuation
     ELSE /\ UNCHANGED WorldVars
          /\ UNCHANGED initTrace
  /\ last' = [op |-> "then"]
  /\ UNCHANGED <<session, chain, initFailed, errorLog, atBegin, expect,
                 nFired, mainWrites>>
  /\ UNCHANGED CallVars
  /\ UNCHANGED ProxyVars

\* A remote call reaches the Gateway: call(_, command, arg).
GatewayCall(command, arg) ==
  /\ pending' = call(pending, nextId + 1, command, arg, ~whenReadySettled)
  /\ nextId' = nextId + 1

\* Proxy.getItems(): channel.call('getItems').
ProxyGetItems ==
  /\ initPc # "uninitialized"
  /\ Idle
  /\ nextId < MaxCalls
  /\ GatewayCall("getItems", NoArg)
  /\ last' = [op |-> "proxy", method |-> "getItems"]
  /\ UNCHANGED <<executed, expect, nFired, mainWrites>>
  /\ UNCHANGED GatewayVars
  /\ UNCHANGED WorldVars
  /\ UNCHANGED ProxyVars

\* Proxy.updateItems(request), but for what it leaves unchanged of the
\* Proxies.
UpdateItemsIssued(request) ==
  /\ initPc # "uninitialized"
  /\ Idle
  /\ nextId < MaxCalls
  /\ LET r == updateItemsOnClient(request)
     IN  /\ IF r.calls = <<>>
            THEN UNCHANGED <<pending, nextId>>
            ELSE GatewayCall(r.calls[1].cmd, r.calls[1].arg)
         /\ last' = [op |-> "proxy", method |-> "updateItems",
                     request |-> request, sent |-> r.calls,
                     resolved |-> r.resolved, before |-> nextId]
  /\ UNCHANGED <<executed, expect, nFired, mainWrites>>
  /\ UNCHANGED GatewayVars
  /\ UNCHANGED WorldVars

\* Proxy.updateItems(request).
ProxyUpdateItems(request) ==
  /\ UpdateItemsIssued(request)
  /\ UNCHANGED ProxyVars

\* updateItems(request) of the Proxy p.
ProxyUpdateItemsBy(p, request) ==
  /\ client[p].listener # "none"
  /\ nextId < MaxNotified
  /\ UpdateItemsIssued(request)
  /\ issued' = [issued EXCEPT ![p] = @ \cup ((nextId + 1)..nextId')]
  /\ UNCHANGED <<client, subscribers, inbox, fed>>

\* Proxy.checkIntegrity(full): channel.call('checkIntegrity', full).
ProxyCheckIntegrity(full) ==
  /\ initPc # "uninitialized"
  /\ Idle
  /\ nextId < MaxCalls
  /\ GatewayCall("checkIntegrity", [full |-> full])
  /\ last' = [op |-> "proxy", method |-> "checkIntegrity"]
  /\ UNCHANGED <<executed, expect, nFired, mainWrites>>
  /\ UNCHANGED GatewayVars
  /\ UNCHANGED WorldVars
  /\ UNCHANGED ProxyVars

\* What an update request asks each user key to be.
expectAfter(e, arg) ==
  [k \in UserKeys |->
     IF "delete" \in DOMAIN arg /\ k \in SeqRange(arg.delete) THEN Undefined
     ELSE IF "insert" \in DOMAIN arg
             /\ \E i \in 1..Len(arg.insert) : arg.insert[i][1] = k
     THEN LET i == CHOOSE j \in 1..Len(arg.insert) :
                     /\ arg.insert[j][1] = k
                     /\ \A h \in (j + 1)..Len(arg.insert) :
                          arg.insert[h][1] # k
          IN  arg.insert[i][2]
     ELSE e[k]]

\* The first reaction chained on whenReady runs, whenReady being settled.
Serve ==
  /\ whenReadySettled
  /\ pending # <<>>
  /\ LET r == Head(pending)
         done(state) ==
           [id |-> r.id, cmd |-> r.cmd, early |-> r.early, state |-> state]
     IN  /\ pending' = Tail(pending)
         /\ IF whenReady = "rejected"
            THEN /\ executed' = Append(executed, done("rejected"))
                 /\ last' = [op |-> "serve", id |-> r.id, cmd |-> r.cmd,
                             state |-> "rejected"]
                 /\ UNCHANGED expect
                 /\ UNCHANGED WorldVars
            ELSE /\ executed' = Append(executed, done("fulfilled"))
                 /\ IF r.cmd = "getItems"
                    THEN /\ last' = [op |-> "serve", id |-> r.id,
                                     cmd |-> r.cmd, state |-> "fulfilled",
                                     result |-> mapToSerializable(storage),
                                     reply |-> getItemsOnClient(
                                                 mapToSerializable(storage)),
                                     early |-> r.early]
                         /\ UNCHANGED expect
                         /\ UNCHANGED WorldVars
                    ELSE IF r.cmd = "updateItems"
                    THEN /\ SetWorld(updateItemsOnMain(World, r.arg))
                         /\ expect' = expectAfter(expect, r.arg)
                         /\ last' = [op |-> "serve", id |-> r.id,
                                     cmd |-> r.cmd, state |-> "fulfilled",
                                     arg |-> r.arg, early |-> r.early]
                    ELSE /\ last' = [op |-> "serve", id |-> r.id,
                                     cmd |-> r.cmd, state |-> "fulfilled",
                                     result |-> checkIntegrity(storage,
                                                               r.arg.full),
                                     early |-> r.early]
                         /\ UNCHANGED expect
                         /\ UNCHANGED WorldVars
  /\ UNCHANGED <<nextId, nFired, mainWrites>>
  /\ UNCHANGED GatewayVars
  /\ UNCHANGED ProxyVars

\* The owner process stores a value itself.
MainStore(key) ==
  /\ initPc = "done"
  /\ Idle
  /\ mainWrites < MaxMainWrites
  /\ mainWrites' = mainWrites + 1
  /\ SetWorld(store(World, key, MainValue))
  /\ expect' = [expect EXCEPT ![key] = MainValue]
  /\ last' = [op |-> "main"]
  /\ UNCHANGED nFired
  /\ UNCHANGED CallVars
  /\ UNCHANGED GatewayVars
  /\ UNCHANGED ProxyVars

\* The owner process removes a key itself.
MainRemove(key) ==
  /\ initPc = "done"
  /\ Idle
  /\ mainWrites < MaxMainWrites
  /\ mainWrites' = mainWrites + 1
  /\ SetWorld(remove(World, key))
  /\ expect' = [expect EXCEPT ![key] = Undefined]
  /\ last' = [op |-> "main"]
  /\ UNCHANGED nFired
  /\ UNCHANGED CallVars
  /\ UNCHANGED GatewayVars
  /\ UNCHANGED ProxyVars

\* new GlobalStorageDatabaseChannelClient(channel): registerListeners().
\* The Proxies being alike, they are constructed in the order of FirstProxy.
ProxyConstruct(p) ==
  /\ initPc # "uninitialized"
  /\ ~MicrotaskDue
  /\ client[p].listener = "none"
  /\ p # FirstProxy => client[FirstProxy].listener # "none"
  /\ LET r == registerListenersOnClient(client[p], subscribers, p, nFired)
     IN  /\ client' = [client EXCEPT ![p] = r.client]
         /\ subscribers' = r.subscribers
         /\ last' = [op |-> "proxy", method |-> "constructor", proxy |-> p,
                     threw |-> r.threw]
  /\ UNCHANGED <<inbox, fed, issued, expect, nFired, mainWrites>>
  /\ UNCHANGED CallVars
  /\ UNCHANGED GatewayVars
  /\ UNCHANGED WorldVars

\* Proxy.close()
ProxyClose(p) ==
  /\ client[p].listener # "none"
  /\ ~MicrotaskDue
  /\ LET r == closeOnClient(client[p], subscribers, p)
     IN  /\ client' = [client EXCEPT ![p] = [r.client EXCEPT !.closed = TRUE]]
         /\ subscribers' = r.subscribers
         /\ IF r.calls = <<>>
            THEN UNCHANGED <<pending, nextId>>
            ELSE GatewayCall(r.calls[1].cmd, r.calls[1].arg)
         /\ last' = [op |-> "proxy", method |-> "close", proxy |-> p,
                     sent |-> r.calls, resolved |-> r.resolved,
                     threw |-> r.threw,
                     again |-> client[p].listener = "released"]
  /\ UNCHANGED <<inbox, fed, issued, expect, nFired, mainWrites, executed>>
  /\ UNCHANGED GatewayVars
  /\ UNCHANGED WorldVars

\* Proxy.dispose()
ProxyDispose(p) ==
  /\ client[p].listener # "none"
  /\ ~MicrotaskDue
  /\ LET r == disposeOnClient(client[p], subscribers, p)
     IN  /\ client' = [client EXCEPT ![p] = r.client]
         /\ subscribers' = r.subscribers
         /\ last' = [op |-> "proxy", method |-> "dispose", proxy |-> p,
                     threw |-> r.threw,
                     again |-> client[p].listener = "released"]
  /\ UNCHANGED <<inbox, fed, issued, expect, nFired, mainWrites>>
  /\ UNCHANGED CallVars
  /\ UNCHANGED GatewayVars
  /\ UNCHANGED WorldVars

\* A ChangeEvent reaches the Proxy p: its handler runs when the Proxy still
\* listens; the event is dropped when it does not.
Deliver(p) ==
  /\ inbox[p] # <<>>
  /\ LET e == payloadOf(Head(inbox[p]))
         handled == client[p].listener = "subscribed"
     IN  /\ client' = IF handled
                      THEN [client EXCEPT ![p] = runHandler(@, e)]
                      ELSE client
         /\ last' = [op |-> "deliver", proxy |-> p, payload |-> e,
                     handled |-> handled, skew |-> FALSE,
                     fired |-> IF handled /\ ~client[p].disposed
                               THEN onDidChangeItemsOnMain(e).fired
                               ELSE <<>>,
                     threw |-> handled /\ onDidChangeItemsOnMain(e).threw]
  /\ inbox' = [inbox EXCEPT ![p] = Tail(@)]
  /\ UNCHANGED <<subscribers, fed, issued, expect, nFired, mainWrites>>
  /\ UNCHANGED CallVars
  /\ UNCHANGED GatewayVars
  /\ UNCHANGED WorldVars

\* The transport hands the payload e to the handler of the Proxy p: a
\* message of another version of the Gateway, or a damaged one.
HandlerFed(p, e) ==
  /\ client[p].listener = "subscribed"
  /\ fed < MaxFed
  /\ fed' = fed + 1
  /\ client' = [client EXCEPT ![p] = runHandler(@, e)]
  /\ last' = [op |-> "deliver", proxy |-> p, payload |-> e,
              handled |-> TRUE, skew |-> TRUE,
              fired |-> IF client[p].disposed THEN <<>>
                        ELSE onDidChangeItemsOnMain(e).fired,
              threw |-> onDidChangeItemsOnMain(e).threw]
  /\ UNCHANGED <<subscribers, inbox, issued, expect, nFired, mainWrites>>
  /\ UNCHANGED CallVars
  /\ UNCHANGED GatewayVars
  /\ UNCHANGED WorldVars

\* A client calls the Gateway with a name that is no command of it.
CallUnknown(command) ==
  /\ initPc # "uninitialized"
  /\ ~MicrotaskDue
  /\ pending' = call(pending, nextId + 1, command, NoArg, ~whenReadySettled)
  /\ nextId' = IF pending' = pending THEN nextId ELSE nextId + 1
  /\ last' = [op |-> "call", command |-> command,
              threw |-> callThrows(command)]
  /\ UNCHANGED <<executed, expect, nFired, mainWrites>>
  /\ UNCHANGED ProxyVars
  /\ UNCHANGED GatewayVars
  /\ UNCHANGED WorldVars

\* A client subscribes at the Gateway with a name that is no event of it.
ListenUnknown(event) ==
  /\ initPc # "uninitialized"
  /\ ~MicrotaskDue
  /\ LET r == listen(event)
     IN  /\ subscribers' = IF r.threw THEN subscribers
                           ELSE Append(subscribers, "stranger")
         /\ last' = [op |-> "listen", event |-> event, threw |-> r.threw]
  /\ UNCHANGED <<client, inbox, fed, issued, expect, nFired, mainWrites>>
  /\ UNCHANGED CallVars
  /\ UNCHANGED GatewayVars
  /\ UNCHANGED WorldVars

\* Time passes while the timer of the debouncer runs.
Tick ==
  /\ handle > 0
  /\ ~MicrotaskDue
  /\ LET d == Min(TickStep, handle)
     IN  /\ handle' = handle - d
         /\ sinceRaw' = IF sinceRaw = NoTimer THEN sinceRaw
                        ELSE Min(sinceRaw + d, 2 * 100)
  /\ last' = [op |-> "tick"]
  /\ UNCHANGED <<storage, listening, output, burst, nBursts, nFired,
                 mainWrites, expect>>
  /\ UNCHANGED CallVars
  /\ UNCHANGED GatewayVars
  /\ UNCHANGED ProxyVars

\* The timer of the debouncer fires: the accumulated events are handed to
\* the listener of registerListeners(), which fires onDidChangeItems.
Flush ==
  /\ TimerDue
  /\ output' = <<>>
  /\ handle' = NoTimer
  /\ LET fired == debouncedListener(output, storage)
     IN  IF fired # <<>>
         THEN /\ nFired' = nFired + Len(fired)
              /\ inbox' = fire(inbox, subscribers, fired[1])
              /\ last' = [op |-> "flush", fired |-> TRUE,
                          items |-> fired[1].items, since |-> sinceRaw]
         ELSE /\ nFired' = nFired
              /\ UNCHANGED inbox
              /\ last' = [op |-> "flush", fired |-> FALSE]
  /\ UNCHANGED <<storage, listening, sinceRaw, burst, nBursts, mainWrites,
                 expect>>
  /\ UNCHANGED CallVars
  /\ UNCHANGED GatewayVars
  /\ UNCHANGED <<client, subscribers, fed, issued>>

\* The owner process ends, with nothing left to do; its storage stays.
Shutdown ==
  /\ initPc = "done"
  /\ pending = <<>>
  /\ handle = NoTimer
  /\ session < MaxSessions
  /\ initPc' = "uninitialized"
  /\ chain' = "pending"
  /\ initFailed' = FALSE
  /\ errorLog' = 0
  /\ initTrace' = <<>>
  /\ listening' = FALSE
  /\ executed' = <<>>
  /\ sinceRaw' = NoTimer
  /\ burst' = <<>>
  /\ nBursts' = 0
  /\ nFired' = 0
  /\ last' = [op |-> "shutdown"]
  /\ subscribers' = <<>>
  /\ UNCHANGED <<storage, session, pending, nextId, output, handle,
                 mainWrites, atBegin, expect, client, inbox, fed, issued>>

Init ==
  /\ storage = EmptyMap
  /\ listening = FALSE
  /\ session = 1
  /\ initPc = "initialize"
  /\ chain = "pending"
  /\ initFailed = FALSE
  /\ errorLog = 0
  /\ initTrace = <<>>
  /\ pending = <<>>
  /\ nextId = 0
  /\ executed = <<>>
  /\ expect = [k \in UserKeys |-> Undefined]
  /\ output = <<>>
  /\ handle = NoTimer
  /\ sinceRaw = NoTimer
  /\ burst = <<>>
  /\ nBursts = 0
  /\ nFired = 0
  /\ mainWrites = 0
  /\ atBegin = Undefined
  /\ client = [p \in Proxies |-> NoProxy]
  /\ subscribers = <<>>
  /\ inbox = [p \in Proxies |-> <<>>]
  /\ fed = 0
  /\ issued = [p \in Proxies |-> {}]
  /\ last = [op |-> "construct"]

Next ==
  \/ Construct
  \/ \E ok \in BOOLEAN : InitializeSettles(ok)
  \/ InitCatch
  \/ InitThen
  \/ ProxyGetItems
  \/ \E request \in Requests : ProxyUpdateItems(request)
  \/ \E full \in BOOLEAN : ProxyCheckIntegrity(full)
  \/ Serve
  \/ \E key \in MainKeys : MainStore(key)
  \/ \E key \in MainKeys : MainRemove(key)
  \/ Tick
  \/ Flush
  \/ Shutdown

Spec == Init /\ [][Next]_vars

\* The Proxy alone, making every update request there is.
ProxyNext == \E request \in AllRequests : ProxyUpdateItems(request)

ProxySpec == Init /\ [][ProxyNext]_vars

\* A step of the owner process that is due once enabled: initialize()
\* settling (the assumption of the claims about pending calls) and the
\* promise reactions.  At most one of them is enabled in any state.
Progress ==
  \/ \E ok \in BOOLEAN : InitializeSettles(ok)
  \/ InitCatch
  \/ InitThen
  \/ Serve

\* The channel seen from its callers: Gateway instances one after the other,
\* every request a Proxy can make, the debounce timer, and no write of the
\* owner process itself.  A pending call is served before the owner process
\* can write (MicrotaskDue), so such writes reach a call only through the
\* items they leave in storage, which update requests leave as well.
CallerNext ==
  \/ Construct
  \/ \E ok \in BOOLEAN : InitializeSettles(ok)
  \/ InitCatch
  \/ InitThen
  \/ ProxyGetItems
  \/ \E request \in Requests : ProxyUpdateItems(request)
  \/ \E full \in BOOLEAN : ProxyCheckIntegrity(full)
  \/ Serve
  \/ Tick
  \/ Flush
  \/ Shutdown

\* The scheduling of the owner process: a step that is due is taken.
FairSpec == Init /\ [][CallerNext]_vars /\ WF_vars(Progress)

\* The update requests of the Proxies that subscribe.
ChannelRequests ==
  { [insert |-> serializableToMap(<< <<"a", "x">> >>)],
    [insert |-> serializableToMap(<< <<"a", "y">>, <<"b", "x">> >>),
     delete |-> <<"a">>] }

\* The channel with its subscribers: one Gateway, whose initialize()
\* succeeds, the Proxies as they are constructed, closed and disposed, their
\* update requests, and the ChangeEvents on their way.
ChannelNext ==
  \/ InitializeSettles(TRUE)
  \/ InitCatch
  \/ InitThen
  \/ \E p \in Proxies : ProxyConstruct(p)
  \/ \E p \in Proxies : ProxyClose(p)
  \/ \E p \in Proxies : ProxyDispose(p)
  \/ \E request \in ChannelRequests : ProxyUpdateItems(request)
  \/ Serve
  \/ Tick
  \/ Flush
  \/ \E p \in Proxies : Deliver(p)

ChannelSpec == Init /\ [][ChannelNext]_vars

\* The channel with a client that does not match it: names that are no
\* command and no event of the Gateway.
MismatchNext ==
  \/ InitializeSettles(TRUE)
  \/ InitCatch
  \/ InitThen
  \/ \E p \in Proxies : ProxyConstruct(p)
  \/ \E request \in ChannelRequests : ProxyUpdateItems(request)
  \/ Serve
  \/ Tick
  \/ Flush
  \/ \E p \in Proxies : Deliver(p)
  \/ \E command \in UnknownCommands : CallUnknown(command)
  \/ \E event \in UnknownEvents : ListenUnknown(event)

MismatchSpec == Init /\ [][MismatchNext]_vars

\* The channel with a transport that hands the Proxies, besides the
\* ChangeEvents of the Gateway, payloads of every shape.
SkewNext ==
  \/ InitializeSettles(TRUE)
  \/ InitCatch
  \/ InitThen
  \/ \E p \in Proxies : ProxyConstruct(p)
  \/ \E request \in ChannelRequests : ProxyUpdateItems(request)
  \/ Serve
  \/ Tick
  \/ Flush
  \/ \E p \in Proxies : Deliver(p)
  \/ \E p \in Proxies, e \in Payloads : HandlerFed(p, e)

SkewSpec == Init /\ [][SkewNext]_vars

\* The way of a mutation to the Proxies: one Gateway, the Proxies as they
\* are constructed and closed, their update requests, the debounce timer
\* and the ChangeEvents on their way.
NotifyNext ==
  \/ InitializeSettles(TRUE)
  \/ InitCatch
  \/ InitThen
  \/ \E p \in Proxies : ProxyConstruct(p)
  \/ \E p \in Proxies : ProxyClose(p)
  \/ \E p \in Proxies, request \in ChannelRequests :
       ProxyUpdateItemsBy(p, request)
  \/ Serve
  \/ Tick
  \/ Flush
  \/ \E p \in Proxies : Deliver(p)

\* The scheduling: a promise reaction that is due runs, time passes and the
\* timer fires, and the transport delivers what was sent.
NotifySpec ==
  /\ Init /\ [][NotifyNext]_vars
  /\ WF_vars(Progress)
  /\ WF_vars(Tick \/ Flush)
  /\ \A p \in Proxies : WF_vars(Deliver(p))

(***************************************************************************)
(* Properties.                                                             *)
(***************************************************************************)
SeqSet(q) == {q[i] : i \in 1..Len(q)}

\* Initialization has completed: initialize() settled, then the identity
\* values were seeded, then the mutation listener was registered.
InitCompleted ==
  /\ initPc = "done"
  /\ initTrace = <<"initialize", "initTelemetry", "registerListeners">>
  /\ listening
  /\ MapGet(storage, currentSessionDateStorageKey) = toUTCString(session)

IsPrefix(p, q) == Len(p) <= Len(q) /\ SubSeq(q, 1, Len(p)) = p

\* C1: no call is executed against the storage before initialization has
\* completed; until then the calls issued stay pending, in order, and the
\* storage is left as it is.
C1_Inv ==
  /\ executed # <<>> => InitCompleted
  /\ ~InitCompleted => \A i \in 1..Len(pending) : pending[i].early
  /\ last.op = "serve" => InitCompleted

C1_NoCallBeforeReady ==
  /\ []C1_Inv
  /\ [][~InitCompleted => IsPrefix(pending, pending')]_vars
  /\ [][~InitCompleted /\ ~InitCompleted' => storage' = storage]_vars

\* C1 witness: a call issued before initialization completed was executed
\* once it had.
C1_Witness ==
  /\ InitCompleted
  /\ \E r \in SeqSet(executed) : r.early /\ r.state = "fulfilled"

\* The items of a snapshot with key k.
ItemsOf(items, k) == {i \in 1..Len(items) : items[i][1] = k}

\* A snapshot shows each user key as it was last asked to be.
Reflects(items) ==
  \A k \in UserKeys :
    IF expect[k] = Undefined
    THEN ItemsOf(items, k) = {}
    ELSE /\ Cardinality(ItemsOf(items, k)) = 1
         /\ \A i \in ItemsOf(items, k) : items[i][2] = expect[k]

PendingEarly(cmd) ==
  \E i \in 1..Len(pending) : pending[i].cmd = cmd /\ pending[i].early

NoneEarlyPending == \A i \in 1..Len(pending) : ~pending[i].early

\* A reaction leaves the pending ones only by running: the first one, which
\* is then among the executed, with the state its call ended in.
RunsHead(state) ==
  Len(pending') < Len(pending) =>
    /\ pending' = Tail(pending)
    /\ executed' =
         Append(executed,
                [id |-> Head(pending).id, cmd |-> Head(pending).cmd,
                 early |-> Head(pending).early, state |-> state])

\* C2: a getItems and an updateItems issued before initialization completes
\* both resolve in the end, and a getItems served after the update shows
\* what the update (and any later write) asked for.
C2_EarlyCallsResolveAndShow ==
  /\ [](last.op = "serve" /\ last.cmd = "getItems" =>
          last.state = "fulfilled" /\ Reflects(last.result))
  /\ [][RunsHead("fulfilled")]_vars
  /\ (PendingEarly("getItems") /\ PendingEarly("updateItems"))
       ~> NoneEarlyPending

\* C2 witness: a getItems issued before initialization completed is served
\* after an update issued before it, and shows a key of that update.
C2_Witness ==
  /\ last.op = "serve" /\ last.cmd = "getItems" /\ last.early
  /\ \E r \in SeqSet(executed) :
       r.cmd = "updateItems" /\ r.early /\ r.id < last.id
  /\ \E k \in UserKeys : ItemsOf(last.result, k) # {}

Ids(q) == [i \in 1..Len(q) |-> q[i].id]

Increasing(ids) ==
  \A i, j \in 1..Len(ids) : i < j => ids[i] < ids[j]

Times(ex, id) == Cardinality({i \in 1..Len(ex) : ex[i].id = id})

\* C3: the calls issued before Ready are executed once each, in the order
\* they were issued: none twice, none left out once Ready is reached.
C3_Inv ==
  /\ Increasing(Ids(executed) \o Ids(pending))
  /\ (initPc = "done" /\ ~MicrotaskDue) =>
       \A i \in 1..Len(pending) : ~pending[i].early

C3_ExactlyOnceInOrder ==
  /\ []C3_Inv
  /\ [][\A id \in 1..MaxCalls :
          Times(executed, id) = 1 /\ executed' # <<>> =>
            Times(executed', id) = 1]_vars
  /\ [][Len(pending') < Len(pending) =>
          Times(executed', Head(pending).id) = 1]_vars
  /\ (~NoneEarlyPending) ~> NoneEarlyPending

\* C3 witness: two calls issued before Ready have been executed.
C3_Witness ==
  \E r1, r2 \in SeqSet(executed) : r1.early /\ r2.early /\ r1.id < r2.id

\* C4: when initialize() fails the Gateway still seeds the identity values,
\* registers the listener and gets Ready, and every call is served, none
\* rejected.
C4_InitFailureNotFatal ==
  initFailed =>
    /\ initPc = "done" => InitCompleted /\ chain = "fulfilled"
    /\ errorLog = (IF initPc \in {"then", "done"} THEN 1 ELSE 0)
    /\ \A r \in SeqSet(executed) : r.state = "fulfilled"
    /\ last.op = "serve" => last.state = "fulfilled"

\* C4 witness: after a failed initialize(), a call issued before the failure
\* and a call issued after it were both served.
C4_Witness ==
  /\ initFailed
  /\ \E r1, r2 \in SeqSet(executed) :
       /\ r1.early /\ r1.state = "fulfilled"
       /\ ~r2.early /\ r2.state = "fulfilled"

\* The identity values are seeded: the promise before the reaction of
\* then(() => ...) was fulfilled, and the reaction has run.
Seeded == initPc = "done" /\ chain = "fulfilled"

\* C5: the installation id and the first-session date, once they have a
\* value, keep it through every later initialization; every initialization
\* stores its own current-session date, and as last-session date the
\* current-session date the storage held when the initialization began.
C5_IdentitySeeding ==
  /\ [][\A k \in {instanceStorageKey, firstSessionDateStorageKey} :
          MapHas(storage, k) =>
            MapHas(storage', k) /\ MapGet(storage', k) = MapGet(storage, k)]_vars
  /\ [](Seeded =>
          /\ MapHas(storage, instanceStorageKey)
          /\ MapHas(storage, firstSessionDateStorageKey)
          /\ MapGet(storage, currentSessionDateStorageKey)
               = toUTCString(session)
          /\ MapGet(storage, lastSessionDateStorageKey)
               = (IF atBegin = Undefined THEN Null ELSE atBegin))

\* C5 witness: the second initialization has seeded, over what the first
\* one stored.
C5_Witness ==
  /\ Seeded
  /\ session = 2
  /\ MapGet(storage, instanceStorageKey) = generateUuid(1)
  /\ MapGet(storage, firstSessionDateStorageKey) = toUTCString(1)
  /\ MapGet(storage, lastSessionDateStorageKey) = toUTCString(1)
  /\ MapGet(storage, currentSessionDateStorageKey) = toUTCString(2)

\* The items and the keys a remote update request carries.
InsertedBy(arg) == IF "insert" \in DOMAIN arg THEN SeqSet(arg.insert) ELSE {}

DeletedBy(arg) == IF "delete" \in DOMAIN arg THEN SeqSet(arg.delete) ELSE {}

\* C6: updateItems applies the inserts before the deletes.  When it has
\* run, every key of its delete set is absent from the storage, also one it
\* inserts, and every other inserted key holds the inserted value; a
\* getItems lists no key that was last deleted.
C6_InsertsThenDeletes ==
  /\ last.op = "serve" /\ last.cmd = "updateItems" =>
       /\ \A k \in DeletedBy(last.arg) : ~MapHas(storage, k)
       /\ \A item \in InsertedBy(last.arg) :
            item[1] \notin DeletedBy(last.arg) =>
              MapHas(storage, item[1]) /\ MapGet(storage, item[1]) = item[2]
  /\ last.op = "serve" /\ last.cmd = "getItems" =>
       \A k \in UserKeys :
         expect[k] = Undefined => ItemsOf(last.result, k) = {}

\* C6 witness: an update that inserts and deletes the same key, and inserts
\* another, has run.
C6_Witness ==
  /\ last.op = "serve" /\ last.cmd = "updateItems"
  /\ \E item \in InsertedBy(last.arg) : item[1] \in DeletedBy(last.arg)
  /\ \E item \in InsertedBy(last.arg) :
       item[1] \notin DeletedBy(last.arg) /\ MapHas(storage, item[1])

\* The items and the keys of a client's update request.
RequestItems(request) ==
  IF "insert" \in DOMAIN request
  THEN {<<k, request.insert.val[k]>> : k \in DOMAIN request.insert.val}
  ELSE {}

RequestDeletes(request) ==
  IF "delete" \in DOMAIN request THEN SeqSet(request.delete) ELSE {}

\* C7: the Proxy's updateItems issues no remote call and resolves at once
\* for a request with no insert and no delete, and for any other request
\* issues one 'updateItems' call that carries the request's items and keys,
\* each once.
C7_NoOpSuppression ==
  last.op = "proxy" /\ last.method = "updateItems" =>
    IF RequestItems(last.request) = {} /\ RequestDeletes(last.request) = {}
    THEN /\ last.sent = <<>>
         /\ last.resolved
         /\ nextId = last.before
         /\ \A i \in 1..Len(pending) : pending[i].id <= last.before
    ELSE /\ Len(last.sent) = 1
         /\ ~last.resolved
         /\ nextId = last.before + 1
         /\ pending # <<>>
         /\ LET c == pending[Len(pending)]
            IN  /\ c.id = nextId
                /\ c.cmd = "updateItems"
                /\ c.arg = last.sent[1].arg
                /\ InsertedBy(c.arg) = RequestItems(last.request)
                /\ DeletedBy(c.arg) = RequestDeletes(last.request)
                /\ "insert" \in DOMAIN c.arg =>
                     Len(c.arg.insert) = Cardinality(InsertedBy(c.arg))
                /\ "delete" \in DOMAIN c.arg =>
                     Len(c.arg.delete) = Cardinality(DeletedBy(c.arg))
         /\ \A i \in 1..(Len(pending) - 1) : pending[i].id <= last.before

\* C7 witness: a request whose insert and delete parts are there and empty
\* was made after one that was sent.
C7_Witness ==
  /\ last.op = "proxy" /\ last.method = "updateItems"
  /\ DOMAIN last.request = {"insert", "delete"}
  /\ last.sent = <<>>
  /\ pending # <<>>

\* The keys of the raw events of the current burst.
BurstKeys == {burst[i].key : i \in 1..Len(burst)}

\* C8: a burst of raw events, each less than the quiet period after the one
\* before, ends in one ChangeEvent, which holds one entry for each key of
\* the burst.
C8_OneEventPerBurst ==
  /\ nFired = nBursts - (IF handle = NoTimer THEN 0 ELSE 1)
  /\ handle # NoTimer => output # <<>> /\ burst # <<>>
  /\ last.op = "flush" =>
       /\ last.fired
       /\ {last.items[i][1] : i \in 1..Len(last.items)} = BurstKeys
       /\ Len(last.items) = Cardinality(BurstKeys)

\* C8 witness: a ChangeEvent was fired for a burst of at least three raw
\* events on two keys.
C8_Witness ==
  /\ last.op = "flush" /\ last.fired
  /\ Len(burst) >= 3
  /\ Cardinality(BurstKeys) = 2

\* C9: the debounce is trailing, with a quiet period of 100: the timer runs
\* out 100 after the latest raw event, each raw event setting it anew, and
\* a ChangeEvent is fired only then.
C9_TrailingDebounce ==
  /\ handle # NoTimer => sinceRaw # NoTimer /\ handle = 100 - sinceRaw
  /\ last.op = "flush" => last.since = 100
  /\ nFired > 0 => sinceRaw >= 100 \/ nBursts > nFired

C9_Step ==
  [][nFired' > nFired =>
       /\ sinceRaw = 100 /\ sinceRaw' = sinceRaw
       /\ nFired' = nFired + 1 /\ handle' = NoTimer]_vars

C9_TrailingDebounceAlways == []C9_TrailingDebounce /\ C9_Step

\* C9 witness: a ChangeEvent was fired for a burst in which a raw event
\* came some time, less than the quiet period, after the one before.
C9_Witness ==
  /\ last.op = "flush" /\ last.fired /\ last.since = 100
  /\ \E i \in 1..Len(burst) : burst[i].gap > 0 /\ burst[i].gap < 100

\* C10: a ChangeEvent pairs each of its keys, once, with the value the
\* storage holds for it when the event is fired: the missing value for a
\* key that is not there.
C10_ValuesAtFlush ==
  last.op = "flush" /\ last.fired =>
    /\ \A i \in 1..Len(last.items) :
         last.items[i][2] =
           (IF MapHas(storage, last.items[i][1])
            THEN storage.val[last.items[i][1]] ELSE Undefined)
    /\ \A i, j \in 1..Len(last.items) :
         last.items[i][1] = last.items[j][1] => i = j

\* C10 witness: a ChangeEvent reports, with the missing value, a key that
\* was written and then deleted in the window, and another key with the
\* value it holds.
C10_Witness ==
  /\ last.op = "flush" /\ last.fired
  /\ \E i \in 1..Len(last.items) :
       /\ last.items[i][2] = Undefined
       /\ Cardinality({j \in 1..Len(burst) :
                         burst[j].key = last.items[i][1]}) >= 2
  /\ \E i \in 1..Len(last.items) : last.items[i][2] \in UserValues

\* C11: the Gateway fires no ChangeEvent without items.  The listener of the
\* debounced event fires nothing for a window with no raw event, whatever
\* the storage holds; a ChangeEvent is fired only by a flush of a window
\* that holds a raw event, and holds at least one key.
C11_NoEmptyChangeEvent ==
  /\ [](debouncedListener(<<>>, storage) = <<>>)
  /\ [](last.op = "flush" /\ last.fired => Len(last.items) >= 1)
  /\ [][nFired' > nFired =>
          /\ TimerDue /\ output # <<>>
          /\ last'.op = "flush" /\ last'.fired /\ Len(last'.items) >= 1]_vars
  /\ [][TimerDue /\ output = <<>> => nFired' = nFired]_vars

\* C11 witness: the second ChangeEvent of a Gateway was fired, for a window
\* of several raw events on one key, and holds that key.
C11_Witness ==
  /\ last.op = "flush" /\ last.fired
  /\ nFired = 2
  /\ Len(burst) >= 2
  /\ Len(last.items) = 1

\* A payload that is well formed: an object whose items are an array (of
\* Items; the model has no other arrays).
WellFormed(e) == e.kind = "object" /\ e.items.kind = "array"

\* The mapping m holds what the Items say: the keys of the Items, each with
\* the value of the last Item that has it.
Decodes(m, items) ==
  /\ DOMAIN m.val = {items[i][1] : i \in 1..Len(items)}
  /\ SeqSet(m.keys) = DOMAIN m.val
  /\ Len(m.keys) = Cardinality(DOMAIN m.val)
  /\ \A i \in 1..Len(items) :
       (\A j \in (i + 1)..Len(items) : items[j][1] # items[i][1]) =>
         m.val[items[i][1]] = items[i][2]

\* C12: a payload handed to the handler of a listening Proxy that is not
\* well formed, whatever its shape, fires no local change event and lets no
\* exception out of the handler; a well-formed one fires one local event,
\* which holds the decoded mapping.  (Violated: the handler reads e.items of
\* an undefined or null payload, which throws.)
C12_MalformedDropped ==
  last.op = "deliver" /\ last.handled =>
    /\ ~last.threw
    /\ IF WellFormed(last.payload)
       THEN /\ Len(last.fired) = 1
            /\ Decodes(last.fired[1].items, last.payload.items.elems)
       ELSE last.fired = <<>>

\* C13: once close() was called on a Proxy, the Proxy fires no local change
\* event any more and is no listener of the Gateway: a ChangeEvent fired
\* afterwards is not sent to it, and one that was on its way is dropped.  A
\* close() issues no remote call, resolves, and leaves the storage and the
\* Gateway's window as they are.
C13_Inv ==
  /\ \A p \in Proxies :
       client[p].closed =>
         /\ p \notin SeqRange(subscribers)
         /\ client[p].listener = "released"
  /\ last.op = "deliver" /\ client[last.proxy].closed =>
       ~last.handled /\ last.fired = <<>>
  /\ last.op = "proxy" /\ last.method = "close" =>
       last.sent = <<>> /\ last.resolved /\ ~last.threw

C13_ClosedProxyIgnores ==
  /\ []C13_Inv
  /\ [][\A p \in Proxies :
          client[p].closed =>
            /\ client'[p].closed
            /\ client'[p].local = client[p].local
            /\ inbox'[p] = inbox[p] \/ inbox'[p] = Tail(inbox[p])]_vars
  /\ [][last'.op = "proxy" /\ last'.method = "close" =>
          /\ storage' = storage
          /\ pending' = pending /\ nextId' = nextId /\ executed' = executed
          /\ output' = output /\ handle' = handle /\ nFired' = nFired]_vars

\* C13 witness: a Proxy received a ChangeEvent, was closed, and the Gateway
\* has fired its next ChangeEvent, to another Proxy.
C13_Witness ==
  /\ last.op = "flush" /\ last.fired /\ nFired = 2
  /\ \E p, q \in Proxies :
       /\ client[p].closed /\ client[p].local = 1
       /\ q \in SeqRange(subscribers) /\ inbox[q] # <<>>

\* The ChangeEvents the Proxy p has got or is about to get.
Received(p) == client[p].local + Len(inbox[p])

\* C14: close() or dispose() of one Proxy takes that Proxy, and no other,
\* from the listeners of the Gateway and leaves every other Proxy and what
\* is on its way to it as it is; a Proxy that listens is a listener of the
\* Gateway and gets every ChangeEvent fired since it subscribed.
C14_Inv ==
  \A q \in Proxies :
    client[q].listener = "subscribed" =>
      /\ q \in SeqRange(subscribers)
      /\ Received(q) = nFired - client[q].since

C14_OwnSubscriptionOnly ==
  /\ []C14_Inv
  /\ [][last'.op = "proxy" /\ last'.method \in {"close", "dispose"} =>
          /\ subscribers' =
               SelectSeq(subscribers, LAMBDA x : x # last'.proxy)
          /\ \A q \in Proxies \ {last'.proxy} : client'[q] = client[q]
          /\ inbox' = inbox]_vars
  /\ [][nFired' > nFired =>
          \A q \in Proxies :
            client[q].listener = "subscribed" =>
              inbox'[q] = Append(inbox[q], [items |-> last'.items])]_vars

\* C14 witness: of two Proxies that got a first ChangeEvent, one was closed
\* or disposed, and the other has got the second ChangeEvent as well.
C14_Witness ==
  \E p, q \in Proxies :
    /\ client[p].listener = "released" /\ client[p].local = 1
    /\ client[q].listener = "subscribed" /\ client[q].local = 2
    /\ client[q].since = 0

\* C15: a call with a name that is no command, and a listen with a name
\* that is no event, throw, whatever state the Gateway is in, also before
\* whenReady is settled; they chain no reaction, and leave the storage, the
\* Gateway's window and the listeners of its event as they are.
C15_UnknownNamesThrow ==
  /\ [](last.op \in {"call", "listen"} => last.threw)
  /\ [][last'.op \in {"call", "listen"} =>
          /\ storage' = storage
          /\ subscribers' = subscribers
          /\ pending' = pending /\ nextId' = nextId /\ executed' = executed
          /\ output' = output /\ handle' = handle
          /\ client' = client /\ inbox' = inbox]_vars

\* C15 witness: an unknown name has thrown before whenReady was settled,
\* with a call pending and a Proxy subscribed.
C15_Witness ==
  /\ last.op \in {"call", "listen"} /\ last.threw
  /\ ~whenReadySettled
  /\ pending # <<>>
  /\ subscribers # <<>>

\* The mappings of at most two user keys to user values, in every order of
\* insertion.
SmallMaps ==
  UNION {{[keys |-> ks, val |-> f] : f \in [SeqRange(ks) -> UserValues]} :
           ks \in KeySeqs}

\* Two mappings hold the same keys, each with the same value.
SameMapping(m1, m2) ==
  /\ DOMAIN m1.val = DOMAIN m2.val
  /\ \A k \in DOMAIN m1.val : m1.val[k] = m2.val[k]
  /\ SeqSet(m1.keys) = DOMAIN m1.val
  /\ Len(m1.keys) = Cardinality(DOMAIN m1.val)

\* Decoding the encoding of each small mapping gives the mapping back.
RoundTripsOnSmallMaps ==
  \A m \in SmallMaps : serializableToMap(mapToSerializable(m)) = m

\* C16: decoding the encoding of a mapping gives the mapping, and the
\* mapping the Proxy's getItems gives is the mapping the storage holds when
\* the Gateway serves the call: the same keys, each with the same value.
C16_CodecRoundTrip ==
  /\ RoundTripsOnSmallMaps
  /\ serializableToMap(mapToSerializable(storage)) = storage
  /\ last.op = "serve" /\ last.cmd = "getItems" =>
       /\ SameMapping(last.reply, storage)
       /\ last.reply = storage

\* C16 witness: a getItems was served from a storage that holds the seeded
\* values and two user keys.
C16_Witness ==
  /\ last.op = "serve" /\ last.cmd = "getItems"
  /\ UserKeys \subseteq DOMAIN last.reply.val
  /\ instanceStorageKey \in DOMAIN last.reply.val
  /\ MapSize(last.reply) = 6

\* The states of the initialization: Uninitialized, Initializing, Ready.
Rank(pc) ==
  IF pc = "uninitialized" THEN 0 ELSE IF pc = "done" THEN 2 ELSE 1

InitOrder == <<"initialize", "initTelemetry", "registerListeners">>

\* C17: a Gateway goes from Uninitialized to Initializing to Ready and never
\* back (only the end of the owner process ends a Ready Gateway).  The
\* steps of Initializing come in the order: initialize() settles, the
\* identity values are seeded, the mutation listener is registered; the
\* Gateway is Ready only after the three.
C17_Inv ==
  /\ IsPrefix(initTrace, InitOrder)
  /\ initPc = "done" => initTrace = InitOrder
  /\ initPc \in {"uninitialized", "initialize"} => initTrace = <<>>
  /\ initPc \in {"catch", "then"} => initTrace = <<"initialize">>
  /\ whenReadySettled => InitCompleted
  /\ listening =>
       MapGet(storage, currentSessionDateStorageKey) = toUTCString(session)
  /\ initPc # "done" => ~listening
  /\ initPc \in {"catch", "then"} => chain # "pending"
  /\ initPc \in {"uninitialized", "initialize"} => chain = "pending"

C17_InitForwardOnly ==
  /\ []C17_Inv
  /\ [][last'.op # "shutdown" =>
          /\ Rank(initPc') >= Rank(initPc)
          /\ Rank(initPc') <= Rank(initPc) + 1
          /\ IsPrefix(initTrace, initTrace')]_vars
  /\ [][Rank(initPc') < Rank(initPc) =>
          initPc = "done" /\ initPc' = "uninitialized"]_vars

\* C17 witness: the second Gateway has gone from Uninitialized through
\* Initializing, with a failed initialize(), to Ready.
C17_Witness ==
  /\ session = 2
  /\ initFailed
  /\ InitCompleted
  /\ last.op = "then"

\* A step that is a close() or a dispose() of a Proxy.
Releases == last'.op = "proxy" /\ last'.method \in {"close", "dispose"}

\* A Proxy and the listeners after one close() and then one dispose().
CloseThenDispose(c, listeners, p) ==
  LET r == closeOnClient(c, listeners, p)
  IN  disposeOnClient(r.client, r.subscribers, p)

\* C18: close() and dispose(), in any order and any number of times, throw
\* nothing and leave the Proxy with no subscription, as one close() and
\* then one dispose() would: after each of them the Proxy's subscription
\* and the Gateway's listeners are what close() then dispose() would have
\* made them, and so is the whole Proxy once it is disposed; a call that
\* finds the subscription released releases nothing.
C18_Inv ==
  last.op = "proxy" /\ last.method \in {"close", "dispose"} =>
    /\ ~last.threw
    /\ client[last.proxy].listener = "released"
    /\ last.proxy \notin SeqRange(subscribers)

C18_UnsubscribeIdempotent ==
  /\ []C18_Inv
  /\ [][Releases =>
          LET p == last'.proxy
              cd == CloseThenDispose(client[p], subscribers, p)
          IN  /\ client'[p].listener = cd.client.listener
              /\ subscribers' = cd.subscribers
              /\ client'[p].local = cd.client.local
              /\ client'[p].disposed =>
                   [client'[p] EXCEPT !.closed = TRUE]
                     = [cd.client EXCEPT !.closed = TRUE]]_vars
  /\ [][Releases /\ last'.again =>
          /\ subscribers' = subscribers
          /\ inbox' = inbox
          /\ \A q \in Proxies : client'[q].listener = client[q].listener]_vars

\* C18 witness: a Proxy that was closed and disposed is disposed once more,
\* while another Proxy listens.
C18_Witness ==
  /\ last.op = "proxy" /\ last.method = "dispose" /\ last.again
  /\ client[last.proxy].closed /\ client[last.proxy].disposed
  /\ subscribers # <<>>

\* The keys of the Items.
KeysOf(items) == {items[i][1] : i \in 1..Len(items)}

\* C19: the writes that seed the identity values are not reported.  The
\* step that seeds them leaves the Gateway's window empty and its timer
\* unset, though it changes the storage; until whenReady is settled nothing
\* is in the window and no ChangeEvent has been fired; a ChangeEvent is
\* fired only by a Gateway whose initialization has completed, and holds no
\* identity key (no one but the seeding writes them).
C19_Inv ==
  /\ ~whenReadySettled => nFired = 0 /\ output = <<>> /\ handle = NoTimer
  /\ last.op = "then" => output = <<>> /\ handle = NoTimer
  /\ last.op = "flush" /\ last.fired =>
       /\ InitCompleted
       /\ KeysOf(last.items) \cap IdentityKeys = {}
       /\ KeysOf(last.items) \subseteq BurstKeys

C19_SeedingNotReported ==
  /\ []C19_Inv
  /\ [][nFired' > nFired => InitCompleted /\ InitCompleted']_vars
  /\ [][~InitCompleted =>
          output' = <<>> /\ handle' = NoTimer /\ nFired' = 0]_vars

\* C19 witness: the second Gateway, whose seeding has changed the session
\* dates in the storage, has fired a ChangeEvent.
C19_Witness ==
  /\ last.op = "flush" /\ last.fired
  /\ session = 2 /\ Seeded
  /\ MapGet(storage, lastSessionDateStorageKey) = toUTCString(1)
  /\ MapGet(storage, currentSessionDateStorageKey) = toUTCString(2)

\* The Proxy with the fields c and the events box on their way to it still
\* listens and has not got the key k, which is in the window out of the
\* Gateway or in an event on its way.
Owed(c, out, box, k) ==
  /\ c.listener = "subscribed"
  /\ \/ \E i \in 1..Len(out) : out[i].key = k
     \/ \E i \in 1..Len(box) : k \in KeysOf(box[i].items)

AnyOwed ==
  \E p \in Proxies, k \in Keys : Owed(client[p], output, inbox[p], k)

\* The user key k is not in the storages st1 and st2 alike.
Differs(st1, st2, k) ==
  MapHas(st1, k) # MapHas(st2, k) \/ MapGet(st1, k) # MapGet(st2, k)

\* C20: no mutation of an updateItems is lost to the Proxies.  An
\* updateItems runs with the mutation listener registered, and every key it
\* changes is in the Gateway's window with the timer set anew; a key in the
\* window or on its way to a Proxy that listens stays so until the Proxy's
\* handler has fired a local event that holds it, or the Proxy no longer
\* listens; and, the timer and the transport doing their work, that comes
\* about for every such key and every Proxy, the issuer of the update too.
C20_NoMutationLost ==
  /\ [](last.op = "serve" /\ last.cmd = "updateItems" =>
          listening /\ InitCompleted)
  /\ [][last'.op = "serve" /\ last'.cmd = "updateItems" =>
          \A k \in UserKeys :
            Differs(storage, storage', k) =>
              /\ \E i \in 1..Len(output') : output'[i].key = k
              /\ handle' = 100]_vars
  /\ [][\A p \in Proxies, k \in Keys :
          /\ Owed(client[p], output, inbox[p], k)
          /\ ~Owed(client'[p], output', inbox'[p], k)
          => \/ client'[p].listener # "subscribed"
             \/ /\ last'.op = "deliver" /\ last'.proxy = p
                /\ last'.handled /\ ~last'.threw
                /\ Len(last'.fired) = 1
                /\ MapHas(last'.fired[1].items, k)
                /\ client'[p].local = client[p].local + 1]_vars
  /\ AnyOwed ~> ~AnyOwed

\* C20 witness: the Proxy that issued the updates, all of them run, has got
\* a ChangeEvent with two keys, which the other Proxy, still listening,
\* has got as well.
C20_Witness ==
  /\ last.op = "deliver" /\ last.handled /\ Len(last.fired) = 1
  /\ MapSize(last.fired[1].items) = 2
  /\ issued[last.proxy] # {}
  /\ \A id \in issued[last.proxy] : \E r \in SeqSet(executed) : r.id = id
  /\ \E q \in Proxies \ {last.proxy} :
       /\ issued[q] = {}
       /\ client[q].listener = "subscribed" /\ client[q].local >= 1
  /\ ~AnyOwed

====
